---- MODULE Spec2Model ----
(***************************************************************************)
(* note-duel-backend: the bet ledger (bets and sigs tables), the HTTP      *)
(* handlers that create a bet and add the counterparty's signatures, the   *)
(* rejection of a bet, and the resolution of bets on an oracle attestation.*)
(***************************************************************************)
EXTENDS Bags, FiniteSets, Integers, Sequences, TLC

\* ------------------------------------------------------------------ bounds
\* rows the bets table ever receives (ids 1..MaxBets of the serial column)
MaxBets == 2
\* add-sigs requests handled concurrently (worker threads of the runtime)
MaxReplies == 2
\* attestation events the listener dispatches to a resolver task over the run
MaxDeliveries == 2
\* the process restarts while fewer events than this have been published
MaxPublished == 2

\* ------------------------------------------------------------------ values
\* SQL NULL / Option::None
Null == "null"
\* EventId::all_zeros()
AllZeros == "0000"

Alice == "alice"
Bob == "bob"
Mallory == "mallory"
OracleKey == "oracle"

\* outcome labels; "X" is a label the announcement does not declare
Labels == {"H", "T", "X"}
OracleEventIds == {"e1", "e2"}

\* oracle announcements: an enum event with two outcomes and a
\* digit-decomposition event
EnumAnnouncement ==
    [oracle_public_key |-> OracleKey, descriptor |-> "enum", outcomes |-> {"H", "T"}]
DigitAnnouncement ==
    [oracle_public_key |-> OracleKey, descriptor |-> "digits", outcomes |-> {}]

\* utils::oracle_announcement_from_str on the strings of the model: the two
\* announcements in their encoding, and a string that does not decode
oracle_announcement_from_str(str) ==
    CASE str = "enum_announcement" -> [ok |-> TRUE, value |-> EnumAnnouncement]
      [] str = "digit_announcement" -> [ok |-> TRUE, value |-> DigitAnnouncement]
      [] OTHER -> [ok |-> FALSE]
AnnouncementStrings == {"enum_announcement", "digit_announcement", "garbage"}

\* unsigned nostr events: the id is taken from the request as given
UnsignedEvent(id, pubkey) == [id |-> id, pubkey |-> pubkey]
WinA == UnsignedEvent("wa", Alice)
LoseA == UnsignedEvent("la", Alice)
WinB == UnsignedEvent("wb", Bob)
LoseB == UnsignedEvent("lb", Bob)

\* ------------------------------------------------------- adaptor signatures
\* dlc::get_adaptor_point_from_oracle_info: a function of the oracle's key (and
\* nonces) and of the hashed outcome label
get_adaptor_point_from_oracle_info(oracle_public_key, outcome) ==
    [oracle |-> oracle_public_key, outcome |-> outcome]

\* an encrypted signature is the encryption, under an adaptor point, of a
\* signature by key over msg
EncryptedSignature(key, point, msg) == [key |-> key, point |-> point, msg |-> msg]

verify_encrypted_signature(verification_key, encryption_key, message, sig) ==
    /\ sig.key = verification_key
    /\ sig.point = encryption_key
    /\ sig.msg = message

\* an oracle attestation: the oracle's key, the attested outcomes and one
\* signature per outcome. The s value of the signature over an outcome is the
\* discrete logarithm of that outcome's adaptor point.
OracleAttestation(oracle_public_key, outcome, s_value) ==
    [oracle_public_key |-> oracle_public_key,
     outcomes |-> <<outcome>>,
     signatures |-> <<[s |-> s_value]>>]

\* the s value of `signer`'s signature over `outcome`, and a zero s value
SValue(signer, outcome) == get_adaptor_point_from_oracle_info(signer, outcome)
ZeroScalar == [oracle |-> "zero", outcome |-> "zero"]

\* schnorrsig_decompose, Scalar::from_slice and non_zero
signing_scalar(attestation) ==
    LET s == attestation.signatures[1].s
    IN  IF s = ZeroScalar THEN [ok |-> FALSE] ELSE [ok |-> TRUE, scalar |-> s]

\* decrypt_signature: the signature the encryption holds when the scalar is the
\* secret of its adaptor point, and bytes that sign nothing otherwise
decrypt_signature(scalar, sig) ==
    IF scalar = sig.point
    THEN [key |-> sig.key, msg |-> sig.msg]
    ELSE [key |-> "nobody", msg |-> "nothing"]

\* UnsignedEvent::add_signature verifies the signature over the event's id
add_signature(unsigned, signature) ==
    IF signature.key = unsigned.pubkey /\ signature.msg = unsigned.id
    THEN [ok |-> TRUE, id |-> unsigned.id]
    ELSE [ok |-> FALSE]

\* ------------------------------------------------------------------- state
VARIABLES
    bets,          \* table bets: a set of Bet rows
    sigs,          \* table sigs: a bag of Sig rows (the surrogate id is never read)
    bets_id_seq,   \* the serial sequence behind bets.id: the next id
    live,          \* the value of the watch channel: HashSet<EventId>
    handlers,      \* add_sigs_impl calls in progress, one per worker
    resp,          \* the response of the latest create-bet or add-sigs call
    tasks,         \* resolver tasks spawned by the listener, one per dispatched event
    published,     \* events handed to the relay: a bag of [bet, is_party_a, id]
    version,       \* the version of the watch channel's value
    listener,      \* start_listener: its position, its filter, the version its
                   \* receiver has seen, the events its client has notified
    relay,         \* the events the relay stores
    process        \* main: "running", "stopping" after the shutdown signal, "exited"

vars == <<bets, sigs, bets_id_seq, live, handlers, resp, tasks, published,
          version, listener, relay, process>>

BetIds == 1..MaxBets
HandlerIds == 1..MaxReplies
TaskIds == 1..MaxDeliveries

\* ------------------------------------------------------------ models/bet.rs
BetById(table, id) == {b \in table : b.id = id}

Bet_create(table, id, oracle_announcement, win_a, lose_a, win_b, lose_b, oracle_event_id) ==
    table \cup {[id |-> id,
                 oracle_announcement |-> oracle_announcement,
                 user_a |-> win_a.pubkey,
                 win_a |-> win_a,
                 lose_a |-> lose_a,
                 user_b |-> win_b.pubkey,
                 win_b |-> win_b,
                 lose_b |-> lose_b,
                 oracle_event_id |-> oracle_event_id,
                 needs_reply |-> TRUE,
                 win_outcome_event_id |-> Null,
                 lose_outcome_event_id |-> Null]}

Bet_get_by_oracle_event(table, oracle_event_id) ==
    {b \in table : b.oracle_event_id = oracle_event_id}

Bet_get_unfinished_bets(table) ==
    {b.oracle_event_id : b \in {x \in table : ~x.needs_reply /\ x.win_outcome_event_id = Null}}

Bet_set_needs_reply(table, id) ==
    {IF b.id = id THEN [b EXCEPT !.needs_reply = FALSE] ELSE b : b \in table}

\* an update that writes the whole pair of outcome ids
Bet_set_win_outcome_event_id_resets_lose(table, id, win_outcome_event_id) ==
    {IF b.id = id
     THEN [b EXCEPT !.win_outcome_event_id = win_outcome_event_id,
                    !.lose_outcome_event_id = Null]
     ELSE b : b \in table}

Bet_set_win_outcome_event_id(table, id, win_outcome_event_id) ==
    {IF b.id = id THEN [b EXCEPT !.win_outcome_event_id = win_outcome_event_id] ELSE b
        : b \in table}

Bet_set_lose_outcome_event_id(table, id, lose_outcome_event_id) ==
    {IF b.id = id THEN [b EXCEPT !.lose_outcome_event_id = lose_outcome_event_id] ELSE b
        : b \in table}

Bet_delete_by_bet_id(table, id) == {b \in table : b.id # id}

\* ------------------------------------------------------------ models/sig.rs
SigRow(bet_id, is_party_a, is_win, sig, outcome) ==
    [bet_id |-> bet_id, is_party_a |-> is_party_a, is_win |-> is_win,
     sig |-> sig, outcome |-> outcome]

\* new_sigs maps an outcome label to [sig, is_win]
Sig_create_all(table, bet_id, is_party_a, new_sigs) ==
    table (+) SetToBag({SigRow(bet_id, is_party_a, new_sigs[o].is_win, new_sigs[o].sig, o)
                            : o \in DOMAIN new_sigs})

Sig_delete_by_bet_id(table, bet_id) ==
    LET keep == {r \in BagToSet(table) : r.bet_id # bet_id}
    IN  [r \in keep |-> table[r]]

\* the rows get_by_params may return: .first() of the matching rows, in no set order
Sig_get_by_params(table, bet_id, outcome, is_party_a) ==
    {r \in BagToSet(table) :
        r.bet_id = bet_id /\ r.outcome = outcome /\ r.is_party_a = is_party_a}

\* ------------------------------------------------------------ models/mod.rs
\* A transaction either commits every statement or, when one fails, none.
\* fault names the statement that fails: "none", "first" or "second".
DbFaults == {"none", "first", "second"}

\* create_bet without the transaction: the Bet row stays when the insert of
\* the Sig rows fails
create_bet_no_transaction(bt, st, seq, oracle_announcement, win_a, lose_a, win_b, lose_b, oracle_event_id, new_sigs, fault) ==
    LET withBet == Bet_create(bt, seq, oracle_announcement, win_a, lose_a, win_b, lose_b,
                              oracle_event_id)
        withSigs == Sig_create_all(st, seq, TRUE, new_sigs)
    IN  IF fault = "first"
        THEN [ok |-> FALSE, bets |-> bt, sigs |-> st, seq |-> seq]
        ELSE IF fault = "second"
        THEN [ok |-> FALSE, bets |-> withBet, sigs |-> st, seq |-> seq + 1]
        ELSE [ok |-> TRUE, bets |-> withBet, sigs |-> withSigs, seq |-> seq + 1]

\* the serial sequence is advanced by the insert into bets even when the
\* transaction is rolled back afterwards
create_bet(bt, st, seq, oracle_announcement, win_a, lose_a, win_b, lose_b, oracle_event_id, new_sigs, fault) ==
    LET withBet == Bet_create(bt, seq, oracle_announcement, win_a, lose_a, win_b, lose_b,
                              oracle_event_id)
        withSigs == Sig_create_all(st, seq, TRUE, new_sigs)
    IN  IF fault = "first"
        THEN [ok |-> FALSE, bets |-> bt, sigs |-> st, seq |-> seq]
        ELSE IF fault = "second"
        THEN [ok |-> FALSE, bets |-> bt, sigs |-> st, seq |-> seq + 1]
        ELSE [ok |-> TRUE, bets |-> withBet, sigs |-> withSigs, seq |-> seq + 1]

\* add_sigs without the transaction: the Sig rows stay when the update of
\* needs_reply fails
add_sigs_no_transaction(bt, st, bet_id, new_sigs, fault) ==
    LET withSigs == Sig_create_all(st, bet_id, FALSE, new_sigs)
        withFlag == Bet_set_needs_reply(bt, bet_id)
    IN  IF fault = "first" \/ BetById(bt, bet_id) = {}
        THEN [ok |-> FALSE, bets |-> bt, sigs |-> st]
        ELSE IF fault = "second"
        THEN [ok |-> FALSE, bets |-> bt, sigs |-> withSigs]
        ELSE [ok |-> TRUE, bets |-> withFlag, sigs |-> withSigs,
              oracle_event_id |-> (CHOOSE b \in BetById(withFlag, bet_id) : TRUE).oracle_event_id]

\* Sig::create_all then Bet::set_needs_reply; the update of a bet that is gone
\* returns no row, which is an error of get_result
add_sigs(bt, st, bet_id, new_sigs, fault) ==
    LET withSigs == Sig_create_all(st, bet_id, FALSE, new_sigs)
        withFlag == Bet_set_needs_reply(bt, bet_id)
    IN  IF fault # "none" \/ BetById(bt, bet_id) = {}
        THEN [ok |-> FALSE, bets |-> bt, sigs |-> st]
        ELSE [ok |-> TRUE, bets |-> withFlag, sigs |-> withSigs,
              oracle_event_id |-> (CHOOSE b \in BetById(withFlag, bet_id) : TRUE).oracle_event_id]

\* reject_bet without the comparison of the key with the bet's parties
reject_bet_any_key(bt, st, bet_id, key) ==
    LET event == BetById(bt, bet_id)
    IN  IF event # {}
        THEN [bets |-> Bet_delete_by_bet_id(bt, bet_id),
              sigs |-> Sig_delete_by_bet_id(st, bet_id)]
        ELSE [bets |-> bt, sigs |-> st]

reject_bet(bt, st, bet_id, key) ==
    LET event == BetById(bt, bet_id)
    IN  IF event # {} /\ \E b \in event : b.user_a = key \/ b.user_b = key
        THEN [bets |-> Bet_delete_by_bet_id(bt, bet_id),
              sigs |-> Sig_delete_by_bet_id(st, bet_id)]
        ELSE [bets |-> bt, sigs |-> st]

\* ---------------------------------------------------------------- routes.rs
\* the error messages of the handlers
MalformedCommitment == "invalid oracle announcement"
Unsupported == "Only enum events supported"
OutcomeCountMismatch == "Incorrect number of sigs"
VerificationFailed == "invalid sig"
NotFound == "bet not found"
AlreadyReplied == "bet already setup"
DbError == "db error"
Ok == "ok"

\* the loop over request.sigs: every signature is tried against the win and the
\* lose message; one that verifies against neither fails the request
verify_sigs(verification_key, oracle_public_key, win_message, lose_message, request_sigs) ==
    LET point(o) == get_adaptor_point_from_oracle_info(oracle_public_key, o)
        is_win(o) == verify_encrypted_signature(verification_key, point(o), win_message,
                                                request_sigs[o])
        is_lose(o) == verify_encrypted_signature(verification_key, point(o), lose_message,
                                                 request_sigs[o])
    IN  [ok |-> \A o \in DOMAIN request_sigs : is_win(o) \/ is_lose(o),
         sigs |-> [o \in DOMAIN request_sigs |->
                      [sig |-> request_sigs[o], is_win |-> is_win(o)]]]

\* create_bet_check with the number of signatures compared after the
\* signatures are verified
create_bet_check_count_late(request) ==
    LET parsed == oracle_announcement_from_str(request.oracle_announcement)
        ann == parsed.value
    IN  IF ~parsed.ok
        THEN [result |-> MalformedCommitment, verified |-> FALSE]
        ELSE IF ann.descriptor # "enum"
        THEN [result |-> Unsupported, verified |-> FALSE]
        ELSE LET v == verify_sigs(request.win_event.pubkey, ann.oracle_public_key,
                                  request.win_event.id, request.lose_event.id, request.sigs)
             IN  IF ~v.ok
                 THEN [result |-> VerificationFailed, verified |-> TRUE]
                 ELSE IF Cardinality(DOMAIN request.sigs) # Cardinality(ann.outcomes)
                 THEN [result |-> OutcomeCountMismatch, verified |-> DOMAIN request.sigs # {}]
                 ELSE [result |-> Ok, verified |-> DOMAIN request.sigs # {}, sigs |-> v.sigs]

\* the checks of create_bet_impl up to the database call: the result, whether
\* any encrypted signature was verified, and the classified signatures
create_bet_check(request) ==
    LET parsed == oracle_announcement_from_str(request.oracle_announcement)
        ann == parsed.value
    IN  IF ~parsed.ok
        THEN [result |-> MalformedCommitment, verified |-> FALSE]
        ELSE IF ann.descriptor # "enum"
        THEN [result |-> Unsupported, verified |-> FALSE]
        ELSE IF Cardinality(DOMAIN request.sigs) # Cardinality(ann.outcomes)
        THEN [result |-> OutcomeCountMismatch, verified |-> FALSE]
        ELSE LET v == verify_sigs(request.win_event.pubkey, ann.oracle_public_key,
                                  request.win_event.id, request.lose_event.id, request.sigs)
             IN  IF ~v.ok
                 THEN [result |-> VerificationFailed, verified |-> TRUE]
                 ELSE [result |-> Ok, verified |-> DOMAIN request.sigs # {}, sigs |-> v.sigs]

create_bet_impl(bt, st, seq, request, fault) ==
    LET c == create_bet_check(request)
        tx == create_bet(bt, st, seq,
                         oracle_announcement_from_str(request.oracle_announcement).value,
                         request.win_event,
                         request.lose_event, request.counterparty_win_event,
                         request.counterparty_lose_event, request.oracle_event_id,
                         c.sigs, fault)
    IN  IF c.result # Ok
        THEN [result |-> c.result, verified |-> c.verified,
              bets |-> bt, sigs |-> st, seq |-> seq]
        ELSE [result |-> IF tx.ok THEN Ok ELSE DbError, verified |-> c.verified,
              bets |-> tx.bets, sigs |-> tx.sigs, seq |-> tx.seq]

\* add_sigs_check without the test of needs_reply
add_sigs_check_no_reply_test(bt, request) ==
    LET found == BetById(bt, request.id)
        bet == CHOOSE b \in found : TRUE
        ann == bet.oracle_announcement
    IN  IF found = {}
        THEN [result |-> NotFound, verified |-> FALSE]
        ELSE IF ann.descriptor # "enum"
        THEN [result |-> Unsupported, verified |-> FALSE]
        ELSE IF Cardinality(DOMAIN request.sigs) # Cardinality(ann.outcomes)
        THEN [result |-> OutcomeCountMismatch, verified |-> FALSE]
        ELSE LET v == verify_sigs(bet.user_b, ann.oracle_public_key,
                                  bet.win_b.id, bet.lose_b.id, request.sigs)
             IN  IF ~v.ok
                 THEN [result |-> VerificationFailed, verified |-> TRUE]
                 ELSE [result |-> Ok, verified |-> DOMAIN request.sigs # {}, sigs |-> v.sigs]

\* add_sigs_impl up to the database write: load the bet, check needs_reply and
\* the number of signatures, classify the signatures against user_b's messages
add_sigs_check(bt, request) ==
    LET found == BetById(bt, request.id)
        bet == CHOOSE b \in found : TRUE
        ann == bet.oracle_announcement
    IN  IF found = {}
        THEN [result |-> NotFound, verified |-> FALSE]
        ELSE IF ~bet.needs_reply
        THEN [result |-> AlreadyReplied, verified |-> FALSE]
        ELSE IF ann.descriptor # "enum"
        THEN [result |-> Unsupported, verified |-> FALSE]
        ELSE IF Cardinality(DOMAIN request.sigs) # Cardinality(ann.outcomes)
        THEN [result |-> OutcomeCountMismatch, verified |-> FALSE]
        ELSE LET v == verify_sigs(bet.user_b, ann.oracle_public_key,
                                  bet.win_b.id, bet.lose_b.id, request.sigs)
             IN  IF ~v.ok
                 THEN [result |-> VerificationFailed, verified |-> TRUE]
                 ELSE [result |-> Ok, verified |-> DOMAIN request.sigs # {}, sigs |-> v.sigs]

\* ------------------------------------------------------------------ inputs
\* the signatures a request carries for party `key`: a map from the labels of S
\* to encrypted signatures. "h_wins" signs the win message for "H" and the lose
\* message for every other label, "h_loses" the reverse; "forged" carries a
\* valid signature for "H" and signatures by another key for the other labels.
SigPatterns == {"h_wins", "h_loses", "forged"}
LabelSets == {{}, {"H"}, {"H", "T"}, {"H", "T", "X"}}

RequestSigs(S, pattern, key, win_id, lose_id) ==
    [o \in S |->
        LET point == get_adaptor_point_from_oracle_info(OracleKey, o)
        IN  CASE pattern = "h_wins" ->
                    EncryptedSignature(key, point, IF o = "H" THEN win_id ELSE lose_id)
              [] pattern = "h_loses" ->
                    EncryptedSignature(key, point, IF o = "H" THEN lose_id ELSE win_id)
              [] OTHER ->
                    EncryptedSignature(IF o = "H" THEN key ELSE Mallory, point, win_id)]

CreateBetRequest(ann, oracle_event_id, lose_event, S, pattern) ==
    [oracle_announcement |-> ann,
     oracle_event_id |-> oracle_event_id,
     win_event |-> WinA,
     lose_event |-> lose_event,
     counterparty_win_event |-> WinB,
     counterparty_lose_event |-> LoseB,
     sigs |-> RequestSigs(S, pattern, Alice, WinA.id, lose_event.id)]

AddSigsRequest(id, S, pattern) ==
    [id |-> id, sigs |-> RequestSigs(S, pattern, Bob, WinB.id, LoseB.id)]

\* every create-bet request of the model; a lose_event equal to the win_event
\* gives both messages the same id
CreateRequests ==
    {CreateBetRequest(ann, e, lose, S, pattern) :
        ann \in AnnouncementStrings, e \in OracleEventIds, lose \in {LoseA, WinA},
        S \in LabelSets, pattern \in SigPatterns}

\* the create-bet requests of the ledger specification, each with the fault
\* the database meets: one oracle event; 0, 1, 2 and 3 signatures against the
\* two declared outcomes; an announcement that is no enum event or does not
\* parse. A fault only shows in a request that reaches the database.
LedgerCreateRequests ==
    {CreateBetRequest("enum_announcement", "e1", LoseA, S, pattern) :
        S \in LabelSets, pattern \in {"h_wins", "forged"}}
    \cup {CreateBetRequest(ann, "e1", LoseA, {"H", "T"}, "h_wins") :
            ann \in {"digit_announcement", "garbage"}}

LedgerCreateCalls ==
    {<<r, "none">> : r \in LedgerCreateRequests}
    \cup {<<r, fault>> : r \in {x \in LedgerCreateRequests : create_bet_check(x).result = Ok},
                         fault \in DbFaults}

\* the add-sigs requests of the ledger specification: 0, 1, 2 and 3 signatures
LedgerAddSigsRequests ==
    {AddSigsRequest(id, S, pattern) :
        id \in BetIds, S \in LabelSets, pattern \in {"h_loses", "forged"}}

\* ----------------------------------------------------------------- actions
Idle == [pc |-> "idle"]
NoResponse == [op |-> "none", result |-> Ok, verified |-> FALSE]

UnchangedDb == UNCHANGED <<bets, sigs, bets_id_seq>>
UnchangedListener == UNCHANGED <<tasks, published, listener, relay, process>>

\* POST /create-bet: create_bet_impl runs without a suspension point and its
\* writes are one transaction
CreateBet(request, fault) ==
    /\ bets_id_seq <= MaxBets
    /\ LET r == create_bet_impl(bets, sigs, bets_id_seq, request, fault)
       IN  /\ bets' = r.bets
           /\ sigs' = r.sigs
           /\ bets_id_seq' = r.seq
           /\ resp' = [op |-> "create_bet", result |-> r.result, verified |-> r.verified]
    /\ UNCHANGED <<live, version, handlers>>
    /\ UnchangedListener

\* POST /add-sigs, first part: the bet is read and the request checked. A
\* request is taken by the first idle worker.
AddSigsCheck(h, request) ==
    /\ handlers[h].pc = "idle"
    /\ \A k \in HandlerIds : k < h => handlers[k].pc # "idle"
    /\ LET c == add_sigs_check(bets, request)
       IN  IF c.result = Ok
           THEN /\ handlers' = [handlers EXCEPT
                                   ![h] = [pc |-> "add_sigs", id |-> request.id, sigs |-> c.sigs]]
                /\ UNCHANGED resp
           ELSE /\ resp' = [op |-> "add_sigs", result |-> c.result, verified |-> c.verified]
                /\ UNCHANGED handlers
    /\ UNCHANGED <<live, version>>
    /\ UnchangedDb
    /\ UnchangedListener

\* second part: the transaction models::add_sigs
AddSigsCommit(h, fault) ==
    /\ handlers[h].pc = "add_sigs"
    /\ LET tx == add_sigs(bets, sigs, handlers[h].id, handlers[h].sigs, fault)
       IN  /\ bets' = tx.bets
           /\ sigs' = tx.sigs
           /\ IF tx.ok
              THEN /\ handlers' = [handlers EXCEPT
                                      ![h] = [pc |-> "notify",
                                              oracle_event_id |-> tx.oracle_event_id]]
                   /\ UNCHANGED resp
              ELSE /\ handlers' = [handlers EXCEPT ![h] = Idle]
                   /\ resp' = [op |-> "add_sigs", result |-> DbError, verified |-> TRUE]
    /\ UNCHANGED <<bets_id_seq, live, version>>
    /\ UnchangedListener

\* send_if_modified with a closure that reports no modification
send_if_modified_unreported(value, ver, oracle_event_id) ==
    [value |-> value \cup {oracle_event_id}, version |-> ver]

\* the closure stores a set of the one id
send_if_modified_replaces(value, ver, oracle_event_id) ==
    IF value = {oracle_event_id}
    THEN [value |-> value, version |-> ver]
    ELSE [value |-> {oracle_event_id}, version |-> ver + 1]

\* tokio::sync::watch::Sender::send_if_modified with HashSet::insert: the
\* version moves on only when the id was not in the set
send_if_modified(value, ver, oracle_event_id) ==
    IF oracle_event_id \in value
    THEN [value |-> value, version |-> ver]
    ELSE [value |-> value \cup {oracle_event_id}, version |-> ver + 1]

\* third part: under the sender's lock, insert the bet's oracle event id
AddSigsNotify(h) ==
    /\ handlers[h].pc = "notify"
    /\ LET sent == send_if_modified(live, version, handlers[h].oracle_event_id)
       IN  /\ live' = sent.value
           /\ version' = sent.version
    /\ handlers' = [handlers EXCEPT ![h] = Idle]
    /\ resp' = [op |-> "add_sigs", result |-> Ok, verified |-> TRUE]
    /\ UnchangedDb
    /\ UnchangedListener

\* models::reject_bet, one transaction
RejectBet(bet_id, key) ==
    /\ LET r == reject_bet(bets, sigs, bet_id, key)
       IN  /\ bets' = r.bets
           /\ sigs' = r.sigs
    /\ UNCHANGED <<bets_id_seq, live, version, handlers, resp>>
    /\ UnchangedListener

\* -------------------------------------------------------------- listener.rs
\* a relay event: its kind, whether its own signature verifies, its "e" tag
\* (none: {}) and its content
RelayEvent(kind, verifies, e_tag, content) ==
    [kind |-> kind, verifies |-> verifies, e_tag |-> e_tag, content |-> content]

\* utils::oracle_attestation_from_str: content that decodes is the attestation
oracle_attestation_from_str(content) ==
    IF content = <<>> THEN [ok |-> FALSE] ELSE [ok |-> TRUE, value |-> content[1]]

\* Option values are sets with at most one element
None == {}
Some(x) == {x}
Unwrap(opt) == CHOOSE x \in opt : TRUE

\* what handle_bet reads of the Bet it is given: the id and the unsigned events
\* (the columns no statement ever updates)
BetView(b) ==
    [id |-> b.id, win_a |-> b.win_a, lose_a |-> b.lose_a, win_b |-> b.win_b, lose_b |-> b.lose_b]

\* the orders in which a query may return the rows of S
Orders(S) ==
    {q \in [1..Cardinality(S) -> S] : \A i, j \in 1..Cardinality(S) : q[i] = q[j] => i = j}

\* one side of handle_bet up to the ledger write: the scalar of the attestation,
\* the decrypted signature, the unsigned event the Sig's is_win selects, and
\* the signed event
resolve_side(bet, sig, attestation, is_party_a) ==
    LET sc == signing_scalar(attestation)
        valid_sig == decrypt_signature(sc.scalar, sig.sig)
        unsigned == IF is_party_a
                    THEN (IF sig.is_win THEN bet.win_a ELSE bet.lose_a)
                    ELSE (IF sig.is_win THEN bet.win_b ELSE bet.lose_b)
        signed_event == add_signature(unsigned, valid_sig)
    IN  IF ~sc.ok THEN [ok |-> FALSE]
        ELSE IF ~signed_event.ok THEN [ok |-> FALSE]
        ELSE [ok |-> TRUE, is_win |-> sig.is_win, id |-> signed_event.id]

\* the id of a win goes to the lose column and the id of a loss to the win column
set_outcome_event_id_swapped(bt, bet_id, is_win, id) ==
    IF is_win
    THEN Bet_set_lose_outcome_event_id(bt, bet_id, id)
    ELSE Bet_set_win_outcome_event_id(bt, bet_id, id)

\* the ledger write of one side: the signed event's id goes to the column the
\* Sig's is_win selects
set_outcome_event_id(bt, bet_id, is_win, id) ==
    IF is_win
    THEN Bet_set_win_outcome_event_id(bt, bet_id, id)
    ELSE Bet_set_lose_outcome_event_id(bt, bet_id, id)

Done == [pc |-> "done"]

\* start_listener at the top of its loop, with a receiver that has seen the
\* given version: no filter, no event notified
Connecting(seen) ==
    [pc |-> "connect", filter |-> {}, seen |-> seen, got |-> {}, notifications |-> "open"]

\* the error of handle_bet is passed on and handle_event returns
NextBet_returns(task) == Done

\* handle_bet returned (Ok or Err): handle_event goes on with the next bet
NextBet(task) ==
    IF Len(task.bets) <= 1
    THEN Done
    ELSE [task EXCEPT !.pc = "get_sig_a", !.bets = Tail(task.bets),
                      !.sig_a = None, !.sig_b = None]

UnchangedApi == UNCHANGED <<live, version, handlers, resp, bets_id_seq, process>>
UnchangedSubscription == UNCHANGED <<listener, relay>>

\* the listener receives an event from the relay: an event of kind 89 whose
\* signature verifies is handed to a new task, any other is dropped
Dispatch(t, event) ==
    /\ tasks[t].pc = "idle"
    /\ \A k \in TaskIds : k < t => tasks[k].pc # "idle"
    /\ event.kind = 89 /\ event.verifies
    /\ tasks' = [tasks EXCEPT ![t] = [pc |-> "handle_event", event |-> event]]
    /\ UNCHANGED <<bets, sigs, published>>
    /\ UnchangedApi
    /\ UnchangedSubscription

\* handle_event up to the loop: the e tag, the attestation, the bets of the event
HandleEvent(t) ==
    /\ tasks[t].pc = "handle_event"
    /\ LET event == tasks[t].event
           attestation == oracle_attestation_from_str(event.content)
       IN  IF event.e_tag = None \/ ~attestation.ok
           THEN tasks' = [tasks EXCEPT ![t] = Done]
           ELSE LET found == {BetView(b) :
                                 b \in Bet_get_by_oracle_event(bets, Unwrap(event.e_tag))}
                IN  IF found = {}
                    THEN tasks' = [tasks EXCEPT ![t] = Done]
                    ELSE \E q \in Orders(found) :
                            tasks' = [tasks EXCEPT ![t] =
                                        [pc |-> "get_sig_a",
                                         attestation |-> attestation.value,
                                         bets |-> q, sig_a |-> None, sig_b |-> None]]
    /\ UNCHANGED <<bets, sigs, published>>
    /\ UnchangedApi
    /\ UnchangedSubscription

\* handle_bet: Sig::get_by_params for party A
GetSigA(t) ==
    /\ tasks[t].pc = "get_sig_a"
    /\ LET task == tasks[t]
           rows == Sig_get_by_params(sigs, Head(task.bets).id, task.attestation.outcomes[1], TRUE)
       IN  \/ /\ rows = {}
              /\ tasks' = [tasks EXCEPT ![t] = [task EXCEPT !.pc = "get_sig_b"]]
           \/ \E r \in rows :
                 tasks' = [tasks EXCEPT ![t] =
                             [task EXCEPT !.pc = "get_sig_b", !.sig_a = Some(r)]]
    /\ UNCHANGED <<bets, sigs, published>>
    /\ UnchangedApi
    /\ UnchangedSubscription

\* handle_bet: Sig::get_by_params for party B, and the branch that follows
GetSigB(t) ==
    /\ tasks[t].pc = "get_sig_b"
    /\ LET task == tasks[t]
           rows == Sig_get_by_params(sigs, Head(task.bets).id, task.attestation.outcomes[1], FALSE)
           goto(sig_b) ==
               [task EXCEPT !.sig_b = sig_b,
                            !.pc = IF task.sig_a = None /\ sig_b = None THEN "zero_win"
                                   ELSE IF task.sig_a # None THEN "set_a"
                                   ELSE "set_b"]
       IN  \/ /\ rows = {}
              /\ tasks' = [tasks EXCEPT ![t] = goto(None)]
           \/ \E r \in rows : tasks' = [tasks EXCEPT ![t] = goto(Some(r))]
    /\ UNCHANGED <<bets, sigs, published>>
    /\ UnchangedApi
    /\ UnchangedSubscription

\* no Sig of either party: the first of the two writes of the all-zero id
ZeroWin(t, fails) ==
    /\ tasks[t].pc = "zero_win"
    /\ IF fails
       THEN /\ tasks' = [tasks EXCEPT ![t] = NextBet(tasks[t])]
            /\ UNCHANGED bets
       ELSE /\ bets' = Bet_set_win_outcome_event_id(bets, Head(tasks[t].bets).id, AllZeros)
            /\ tasks' = [tasks EXCEPT ![t] = [tasks[t] EXCEPT !.pc = "zero_lose"]]
    /\ UNCHANGED <<sigs, published>>
    /\ UnchangedApi
    /\ UnchangedSubscription

\* the second write goes to the win column again
ZeroLose_win_again(t, fails) ==
    /\ tasks[t].pc = "zero_lose"
    /\ IF fails
       THEN UNCHANGED bets
       ELSE bets' = Bet_set_win_outcome_event_id(bets, Head(tasks[t].bets).id, AllZeros)
    /\ tasks' = [tasks EXCEPT ![t] = NextBet(tasks[t])]
    /\ UNCHANGED <<sigs, published>>
    /\ UnchangedApi
    /\ UnchangedSubscription

\* the second write of the all-zero id; handle_bet returns
ZeroLose(t, fails) ==
    /\ tasks[t].pc = "zero_lose"
    /\ IF fails
       THEN UNCHANGED bets
       ELSE bets' = Bet_set_lose_outcome_event_id(bets, Head(tasks[t].bets).id, AllZeros)
    /\ tasks' = [tasks EXCEPT ![t] = NextBet(tasks[t])]
    /\ UNCHANGED <<sigs, published>>
    /\ UnchangedApi
    /\ UnchangedSubscription

\* one side of handle_bet, first step: decrypt, sign, and record the signed
\* event's id; an error returns from handle_bet
SetSide(t, is_party_a, fails) ==
    LET task == tasks[t]
        bet == Head(task.bets)
        sig == Unwrap(IF is_party_a THEN task.sig_a ELSE task.sig_b)
        r == resolve_side(bet, sig, task.attestation, is_party_a)
    IN  /\ IF ~r.ok \/ fails
           THEN /\ tasks' = [tasks EXCEPT ![t] = NextBet(task)]
                /\ UNCHANGED bets
           ELSE /\ bets' = set_outcome_event_id(bets, bet.id, r.is_win, r.id)
                /\ tasks' = [tasks EXCEPT ![t] =
                                [task EXCEPT !.pc = IF is_party_a THEN "send_a" ELSE "send_b"]]
        /\ UNCHANGED <<sigs, published>>
        /\ UnchangedApi
        /\ UnchangedSubscription

\* one side of handle_bet, second step: client.send_event; an error returns
\* from handle_bet, after party A's side party B's side follows
SendSide(t, is_party_a, fails) ==
    LET task == tasks[t]
        bet == Head(task.bets)
        sig == Unwrap(IF is_party_a THEN task.sig_a ELSE task.sig_b)
        r == resolve_side(bet, sig, task.attestation, is_party_a)
    IN  /\ IF fails
           THEN /\ tasks' = [tasks EXCEPT ![t] = NextBet(task)]
                /\ UNCHANGED published
           ELSE /\ published' = published (+)
                        SetToBag({[bet |-> bet.id, is_party_a |-> is_party_a, id |-> r.id]})
                /\ tasks' = [tasks EXCEPT ![t] =
                                IF is_party_a /\ task.sig_b # None
                                THEN [task EXCEPT !.pc = "set_b"]
                                ELSE NextBet(task)]
        /\ UNCHANGED <<bets, sigs>>
        /\ UnchangedApi
        /\ UnchangedSubscription

SetA(t, fails) == tasks[t].pc = "set_a" /\ SetSide(t, TRUE, fails)
SendA(t, fails) == tasks[t].pc = "send_a" /\ SendSide(t, TRUE, fails)
SetB(t, fails) == tasks[t].pc = "set_b" /\ SetSide(t, FALSE, fails)
SendB(t, fails) == tasks[t].pc = "send_b" /\ SendSide(t, FALSE, fails)

\* the timeout around handle_event: the task is dropped where it awaits, and
\* handle_bet awaits only in client.send_event
Timeout(t) ==
    /\ tasks[t].pc \in {"send_a", "send_b"}
    /\ tasks' = [tasks EXCEPT ![t] = Done]
    /\ UNCHANGED <<bets, sigs, published>>
    /\ UnchangedApi
    /\ UnchangedSubscription

\* anyone stores an event at the relay
RelayStores(event) ==
    /\ event \notin relay
    /\ relay' = relay \cup {event}
    /\ UNCHANGED <<bets, sigs, tasks, published, listener>>
    /\ UnchangedApi

\* an oracle event's attestation reaches the relay; the oracle attests an
\* event once
OracleAttests(event) ==
    /\ \A stored \in relay : stored.e_tag # event.e_tag
    /\ relay' = relay \cup {event}
    /\ UNCHANGED <<bets, sigs, tasks, published, listener>>
    /\ UnchangedApi

\* start_listener from the top of its loop to client.subscribe: a new client,
\* the value of the channel read with borrow(), which leaves the receiver's
\* seen version alone, and the filter over it. An error of add_relays returns
\* to main, which calls start_listener again with a clone of its own receiver,
\* whose seen version is the version the channel was created with.
ListenerSubscribe(fails) ==
    /\ listener.pc = "connect"
    /\ listener' = IF fails
                   THEN Connecting(0)
                   ELSE [pc |-> "listening", filter |-> live,
                         seen |-> listener.seen, got |-> {}, notifications |-> "open"]
    /\ UNCHANGED <<bets, sigs, tasks, published, relay>>
    /\ UnchangedApi

\* the change is taken note of and the loop goes on with its subscription
ListenerChanged_no_break ==
    /\ listener.pc = "listening"
    /\ version # listener.seen
    /\ listener' = [listener EXCEPT !.seen = version]
    /\ UNCHANGED <<bets, sigs, tasks, published, relay>>
    /\ UnchangedApi

\* select!: event_receiver.changed() resolves when the channel's version is
\* not the one the receiver has seen, marks it seen, and the loop breaks
ListenerChanged ==
    /\ listener.pc = "listening"
    /\ version # listener.seen
    /\ listener' = [listener EXCEPT !.pc = "disconnect", !.seen = version]
    /\ UNCHANGED <<bets, sigs, tasks, published, relay>>
    /\ UnchangedApi

\* select!: notifications.recv() returns an error (the receiver lagged, or the
\* channel is closed); the pattern Ok(notification) does not match, the branch
\* is disabled and select! goes on waiting for event_receiver.changed() alone
ListenerRecvError ==
    /\ listener.pc = "listening"
    /\ listener.notifications = "open"
    /\ listener' = [listener EXCEPT !.notifications = "error"]
    /\ UNCHANGED <<bets, sigs, tasks, published, relay>>
    /\ UnchangedApi

\* select!: RelayPoolNotification::Shutdown breaks the loop
ListenerShutdown ==
    /\ listener.pc = "listening"
    /\ listener.notifications = "open"
    /\ listener' = [listener EXCEPT !.pc = "disconnect"]
    /\ UNCHANGED <<bets, sigs, tasks, published, relay>>
    /\ UnchangedApi

\* client.disconnect: back to the top of the loop, or, on an error, to main
ListenerDisconnect(fails) ==
    /\ listener.pc = "disconnect"
    /\ listener' = Connecting(IF fails THEN 0 ELSE listener.seen)
    /\ UNCHANGED <<bets, sigs, tasks, published, relay>>
    /\ UnchangedApi

\* the signature of the event is not verified
ListenerReceive_no_verify(t, event) ==
    /\ listener.pc = "listening"
    /\ listener.notifications = "open"
    /\ event \in relay \ listener.got
    /\ event.e_tag # None /\ Unwrap(event.e_tag) \in listener.filter
    /\ tasks[t].pc = "idle"
    /\ \A k \in TaskIds : k < t => tasks[k].pc # "idle"
    /\ listener' = [listener EXCEPT !.got = @ \cup {event}]
    /\ IF event.kind = 89
       THEN tasks' = [tasks EXCEPT ![t] = [pc |-> "handle_event", event |-> event]]
       ELSE UNCHANGED tasks
    /\ UNCHANGED <<bets, sigs, published, relay>>
    /\ UnchangedApi

\* the event is handled inside the loop: it is taken once every earlier task
\* has ended
ListenerReceive_awaits(t, event) ==
    /\ listener.pc = "listening"
    /\ listener.notifications = "open"
    /\ event \in relay \ listener.got
    /\ event.e_tag # None /\ Unwrap(event.e_tag) \in listener.filter
    /\ tasks[t].pc = "idle"
    /\ \A k \in TaskIds : k < t => tasks[k].pc = "done"
    /\ listener' = [listener EXCEPT !.got = @ \cup {event}]
    /\ IF event.kind = 89 /\ event.verifies
       THEN tasks' = [tasks EXCEPT ![t] = [pc |-> "handle_event", event |-> event]]
       ELSE UNCHANGED tasks
    /\ UNCHANGED <<bets, sigs, published, relay>>
    /\ UnchangedApi

\* select!: the relay sends a stored event that matches the filter, once per
\* client; an event of kind 89 whose signature verifies is handed to a new task
ListenerReceive(t, event) ==
    /\ listener.pc = "listening"
    /\ listener.notifications = "open"
    /\ event \in relay \ listener.got
    /\ event.e_tag # None /\ Unwrap(event.e_tag) \in listener.filter
    /\ tasks[t].pc = "idle"
    /\ \A k \in TaskIds : k < t => tasks[k].pc # "idle"
    /\ listener' = [listener EXCEPT !.got = @ \cup {event}]
    /\ IF event.kind = 89 /\ event.verifies
       THEN tasks' = [tasks EXCEPT ![t] = [pc |-> "handle_event", event |-> event]]
       ELSE UNCHANGED tasks
    /\ UNCHANGED <<bets, sigs, published, relay>>
    /\ UnchangedApi

\* the process ends and main runs again: the tables and the relay are what
\* they were, the channel is created over Bet::get_unfinished_bets, no call
\* and no task is in progress
Restart ==
    /\ live' = Bet_get_unfinished_bets(bets)
    /\ version' = 0
    /\ listener' = Connecting(0)
    /\ handlers' = [h \in HandlerIds |-> Idle]
    /\ tasks' = [t \in TaskIds |-> Idle]
    /\ resp' = NoResponse
    /\ process' = "running"
    /\ UNCHANGED <<bets, sigs, bets_id_seq, published, relay>>

\* main: SIGTERM or SIGINT arrives, the signal task sends on the oneshot
\* channel and the server's graceful shutdown begins
ShutdownSignal ==
    /\ process = "running"
    /\ process' = "stopping"
    /\ UNCHANGED <<bets, sigs, bets_id_seq, live, handlers, resp, tasks, published,
                   version, listener, relay>>

\* main: graceful.await returns once the requests in progress are answered,
\* main returns and the runtime is dropped with the tasks it still holds
ProcessExit ==
    /\ process = "stopping"
    /\ \A h \in HandlerIds : handlers[h].pc = "idle"
    /\ process' = "exited"
    /\ UNCHANGED <<bets, sigs, bets_id_seq, live, handlers, resp, tasks, published,
                   version, listener, relay>>

\* ------------------------------------------------------------ specification
\* main: the live set is read from the ledger, no request is in progress
Init ==
    /\ bets = {}
    /\ sigs = EmptyBag
    /\ bets_id_seq = 1
    /\ live = Bet_get_unfinished_bets(bets)
    /\ handlers = [h \in HandlerIds |-> Idle]
    /\ resp = NoResponse
    /\ tasks = [t \in TaskIds |-> Idle]
    /\ published = EmptyBag
    /\ version = 0
    /\ listener = Connecting(0)
    /\ relay = {}
    /\ process = "running"

\* the ledger under the requests of the ledger specification, without the listener
NextLedger ==
    \/ \E call \in LedgerCreateCalls : CreateBet(call[1], call[2])
    \/ \E h \in HandlerIds, request \in LedgerAddSigsRequests : AddSigsCheck(h, request)
    \/ \E h \in HandlerIds, fault \in DbFaults : AddSigsCommit(h, fault)
    \/ \E h \in HandlerIds : AddSigsNotify(h)
    \/ \E bet_id \in BetIds, key \in {Alice, Bob, Mallory} : RejectBet(bet_id, key)

SpecLedger == Init /\ [][NextLedger]_vars

\* create-bet under every request of the model, and reject
NextCreate ==
    \/ \E request \in CreateRequests, fault \in DbFaults : CreateBet(request, fault)
    \/ \E bet_id \in BetIds, key \in {Alice, Bob, Mallory} : RejectBet(bet_id, key)

SpecCreate == Init /\ [][NextCreate]_vars

\* the whole program under requests the handlers accept: two bets on one
\* oracle event, a reply in which "H" loses for party B, replies served one at
\* a time (SpecLedger has the concurrent replies), and attestations of a
\* declared and of an undeclared outcome
AcceptedCreateRequests ==
    {CreateBetRequest("enum_announcement", "e1", LoseA, {"H", "T"}, "h_wins")}

AcceptedAddSigsRequests ==
    {AddSigsRequest(id, {"H", "T"}, "h_loses") : id \in BetIds}

Attestations ==
    {RelayEvent(89, TRUE, Some("e1"), <<OracleAttestation(OracleKey, o, SValue(OracleKey, o))>>) :
        o \in {"H", "X"}}

ResolverStep(t) ==
    \/ HandleEvent(t)
    \/ GetSigA(t)
    \/ GetSigB(t)
    \/ \E fails \in BOOLEAN : ZeroWin(t, fails)
    \/ \E fails \in BOOLEAN : ZeroLose(t, fails)
    \/ \E fails \in BOOLEAN : SetA(t, fails)
    \/ \E fails \in BOOLEAN : SendA(t, fails)
    \/ \E fails \in BOOLEAN : SetB(t, fails)
    \/ \E fails \in BOOLEAN : SendB(t, fails)
    \/ Timeout(t)

Next ==
    \/ \E request \in AcceptedCreateRequests : CreateBet(request, "none")
    \/ \E request \in AcceptedAddSigsRequests : AddSigsCheck(1, request)
    \/ AddSigsCommit(1, "none")
    \/ AddSigsNotify(1)
    \/ \E bet_id \in BetIds : RejectBet(bet_id, Alice)
    \/ \E t \in TaskIds, event \in Attestations : Dispatch(t, event)
    \/ \E t \in TaskIds : ResolverStep(t)

Spec == Init /\ [][Next]_vars

\* the tables a run of the program leaves behind, built by its own handlers
EmptyLedger == [bets |-> {}, sigs |-> EmptyBag, seq |-> 1]

\* the ledger after an accepted create-bet on the given oracle event
WithBet(ledger, oracle_event_id) ==
    LET request == CreateBetRequest("enum_announcement", oracle_event_id, LoseA,
                                    {"H", "T"}, "h_wins")
        r == create_bet_impl(ledger.bets, ledger.sigs, ledger.seq, request, "none")
    IN  [bets |-> r.bets, sigs |-> r.sigs, seq |-> r.seq]

\* the ledger after an accepted add-sigs for the given bet
WithReply(ledger, id) ==
    LET c == add_sigs_check(ledger.bets, AddSigsRequest(id, {"H", "T"}, "h_loses"))
        tx == add_sigs(ledger.bets, ledger.sigs, id, c.sigs, "none")
    IN  [bets |-> tx.bets, sigs |-> tx.sigs, seq |-> ledger.seq]

\* two replied bets on one oracle event; a replied bet on one oracle event and
\* a bet that awaits its reply on another
StoredLedgers ==
    {WithReply(WithReply(WithBet(WithBet(EmptyLedger, "e1"), "e1"), 1), 2),
     WithReply(WithBet(WithBet(EmptyLedger, "e1"), "e2"), 1)}

\* main over tables an earlier run has left
InitStored ==
    /\ \E ledger \in StoredLedgers :
          /\ bets = ledger.bets
          /\ sigs = ledger.sigs
          /\ bets_id_seq = ledger.seq
    /\ live = Bet_get_unfinished_bets(bets)
    /\ handlers = [h \in HandlerIds |-> Idle]
    /\ resp = NoResponse
    /\ tasks = [t \in TaskIds |-> Idle]
    /\ published = EmptyBag
    /\ version = 0
    /\ listener = Connecting(0)
    /\ relay = {}
    /\ process = "running"

\* the oracle's attestation of the first oracle event: of an outcome both
\* parties have signed for, or of one neither has
StoredAttestations ==
    {RelayEvent(89, TRUE, Some("e1"), <<OracleAttestation(OracleKey, o, SValue(OracleKey, o))>>) :
        o \in {"H", "X"}}

\* the listener and the resolver over stored tables: the attestation reaches
\* the relay, the listener subscribes, the reply to the waiting bet changes the
\* live set, the resolver's writes and sends fail or not
NextResolve ==
    \/ \E event \in StoredAttestations : OracleAttests(event)
    \/ ListenerSubscribe(FALSE)
    \/ ListenerChanged
    \/ ListenerDisconnect(FALSE)
    \/ \E t \in TaskIds, event \in StoredAttestations : ListenerReceive(t, event)
    \/ \E t \in TaskIds : ResolverStep(t)
    \/ \E request \in AcceptedAddSigsRequests : AddSigsCheck(1, request)
    \/ AddSigsCommit(1, "none")
    \/ AddSigsNotify(1)

SpecResolve == InitStored /\ [][NextResolve]_vars

\* main over stored tables in which a bet on each oracle event awaits its reply
InitAwaiting ==
    /\ LET ledger == WithBet(WithBet(EmptyLedger, "e1"), "e2")
       IN  /\ bets = ledger.bets
           /\ sigs = ledger.sigs
           /\ bets_id_seq = ledger.seq
    /\ live = Bet_get_unfinished_bets(bets)
    /\ handlers = [h \in HandlerIds |-> Idle]
    /\ resp = NoResponse
    /\ tasks = [t \in TaskIds |-> Idle]
    /\ published = EmptyBag
    /\ version = 0
    /\ listener = Connecting(0)
    /\ relay = {}
    /\ process = "running"

\* the replies and the listener's loop, without the resolver: replies the
\* handler accepts, and the update of the needs_reply flag failing or not
NextSubscribe ==
    \/ \E h \in HandlerIds, request \in AcceptedAddSigsRequests : AddSigsCheck(h, request)
    \/ \E h \in HandlerIds, fault \in {"none", "second"} : AddSigsCommit(h, fault)
    \/ \E h \in HandlerIds : AddSigsNotify(h)
    \/ \E fails \in BOOLEAN : ListenerSubscribe(fails)
    \/ ListenerChanged
    \/ ListenerRecvError
    \/ ListenerShutdown
    \/ \E fails \in BOOLEAN : ListenerDisconnect(fails)

\* the listener's task is scheduled: a step of its loop that stays possible
\* is taken, and connecting to the relays does not fail for ever
ListenerFairness ==
    /\ WF_vars(ListenerSubscribe(FALSE))
    /\ WF_vars(ListenerChanged)
    /\ WF_vars(\E fails \in BOOLEAN : ListenerDisconnect(fails))

SpecSubscribe == InitAwaiting /\ [][NextSubscribe]_vars /\ ListenerFairness

\* the listener and the resolver over stored tables with restarts of the
\* process, which are followed as long as few events have been published
NextRestart ==
    \/ \E event \in StoredAttestations : OracleAttests(event)
    \/ ListenerSubscribe(FALSE)
    \/ \E t \in TaskIds, event \in StoredAttestations : ListenerReceive(t, event)
    \/ \E t \in TaskIds : ResolverStep(t)
    \/ BagCardinality(published) < MaxPublished /\ Restart

SpecRestart == InitStored /\ [][NextRestart]_vars

\* the ledger after an accepted add-sigs for the given bet in which party B
\* signs by the given pattern
WithReplyAs(ledger, id, pattern) ==
    LET c == add_sigs_check(ledger.bets, AddSigsRequest(id, {"H", "T"}, pattern))
        tx == add_sigs(ledger.bets, ledger.sigs, id, c.sigs, "none")
    IN  [bets |-> tx.bets, sigs |-> tx.sigs, seq |-> ledger.seq]

\* one replied bet on the first oracle event: party B has signed its lose
\* message for "H", or, like party A, its win message
RelayLedgers ==
    {WithReplyAs(WithBet(EmptyLedger, "e1"), 1, pattern) : pattern \in {"h_loses", "h_wins"}}

\* main over tables an earlier run has left
InitRelay ==
    /\ \E ledger \in RelayLedgers :
          /\ bets = ledger.bets
          /\ sigs = ledger.sigs
          /\ bets_id_seq = ledger.seq
    /\ live = Bet_get_unfinished_bets(bets)
    /\ handlers = [h \in HandlerIds |-> Idle]
    /\ resp = NoResponse
    /\ tasks = [t \in TaskIds |-> Idle]
    /\ published = EmptyBag
    /\ version = 0
    /\ listener = Connecting(0)
    /\ relay = {}
    /\ process = "running"

\* the oracle's attestation of "H" for the first oracle event
OracleEvent ==
    RelayEvent(89, TRUE, Some("e1"), <<OracleAttestation(OracleKey, "H", SValue(OracleKey, "H"))>>)

\* events with the first oracle event in their "e" tag that are not the
\* oracle's: the attestation in an event whose signature does not verify or
\* whose kind is not 89, and events of kind 89 signed by their author that
\* carry an attestation made with the author's own key, of "H" or of "X"
ForeignEvents ==
    {[OracleEvent EXCEPT !.verifies = FALSE],
     [OracleEvent EXCEPT !.kind = 1],
     RelayEvent(89, TRUE, Some("e1"), <<OracleAttestation(Mallory, "H", SValue(Mallory, "H"))>>),
     RelayEvent(89, TRUE, Some("e1"), <<OracleAttestation(Mallory, "X", SValue(Mallory, "X"))>>)}

RelayEvents == {OracleEvent} \cup ForeignEvents

\* the listener and the resolver over stored tables and a relay that stores
\* what anyone sends it
NextRelay ==
    \/ \E event \in RelayEvents : RelayStores(event)
    \/ ListenerSubscribe(FALSE)
    \/ \E t \in TaskIds, event \in RelayEvents : ListenerReceive(t, event)
    \/ \E t \in TaskIds : ResolverStep(t)

SpecRelay == InitRelay /\ [][NextRelay]_vars

\* main over stored tables in which one bet awaits its reply
InitLive ==
    /\ LET ledger == WithBet(EmptyLedger, "e1")
       IN  /\ bets = ledger.bets
           /\ sigs = ledger.sigs
           /\ bets_id_seq = ledger.seq
    /\ live = Bet_get_unfinished_bets(bets)
    /\ handlers = [h \in HandlerIds |-> Idle]
    /\ resp = NoResponse
    /\ tasks = [t \in TaskIds |-> Idle]
    /\ published = EmptyBag
    /\ version = 0
    /\ listener = Connecting(0)
    /\ relay = {}
    /\ process = "running"

\* an accepted create-bet on the second oracle event; replies with valid
\* signatures for every bet id, which fail for a bet that does not exist or
\* has its reply
LiveCreateRequests ==
    {CreateBetRequest("enum_announcement", "e2", LoseA, {"H", "T"}, "h_wins")}

LiveAddSigsRequests ==
    {AddSigsRequest(id, {"H", "T"}, "h_loses") : id \in BetIds}

\* every component that holds the channel or the tables: create (one bet on
\* the second oracle event at a time), concurrent replies that succeed or
\* fail, reject, the listener with one subscription, and the resolver with
\* writes and sends that succeed
NextLive ==
    \/ /\ \A b \in bets : b.oracle_event_id # "e2"
       /\ \E request \in LiveCreateRequests : CreateBet(request, "none")
    \/ \E h \in HandlerIds, request \in LiveAddSigsRequests : AddSigsCheck(h, request)
    \/ \E h \in HandlerIds, fault \in {"none", "second"} : AddSigsCommit(h, fault)
    \/ \E h \in HandlerIds : AddSigsNotify(h)
    \/ \E bet_id \in BetIds : RejectBet(bet_id, Alice)
    \/ \E event \in StoredAttestations : OracleAttests(event)
    \/ ListenerSubscribe(FALSE)
    \/ \E t \in TaskIds, event \in StoredAttestations : ListenerReceive(t, event)
    \/ \E t \in TaskIds :
          \/ HandleEvent(t) \/ GetSigA(t) \/ GetSigB(t)
          \/ ZeroWin(t, FALSE) \/ ZeroLose(t, FALSE)
          \/ SetA(t, FALSE) \/ SendA(t, FALSE)
          \/ SetB(t, FALSE) \/ SendB(t, FALSE)

SpecLive == InitLive /\ [][NextLive]_vars

\* the listener, the resolver and the add-sigs handler over stored tables, with
\* the shutdown signal: until main returns every task of the runtime takes its
\* steps, and the server takes no new request once the signal has arrived
NextShutdown ==
    \/ /\ process = "running"
       /\ \E request \in AcceptedAddSigsRequests : AddSigsCheck(1, request)
    \/ /\ process # "exited"
       /\ \/ AddSigsCommit(1, "none")
          \/ AddSigsNotify(1)
          \/ \E event \in StoredAttestations : OracleAttests(event)
          \/ ListenerSubscribe(FALSE)
          \/ ListenerChanged
          \/ ListenerShutdown
          \/ ListenerDisconnect(FALSE)
          \/ \E t \in TaskIds, event \in StoredAttestations : ListenerReceive(t, event)
          \/ \E t \in TaskIds : ResolverStep(t)
    \/ ShutdownSignal
    \/ ProcessExit

SpecShutdown == InitStored /\ [][NextShutdown]_vars

\* ------------------------------------------------------------------ claims
\* the Sig rows of one party for one bet, as a bag
PartyRows(table, bet_id, is_party_a) ==
    LET rows == {r \in BagToSet(table) : r.bet_id = bet_id /\ r.is_party_a = is_party_a}
    IN  [r \in rows |-> table[r]]

PartyCount(table, bet_id, is_party_a) == BagCardinality(PartyRows(table, bet_id, is_party_a))

\* the events published for one bet, as a bag
PublishedFor(bag, bet_id) ==
    LET rows == {r \in BagToSet(bag) : r.bet = bet_id}
    IN  [r \in rows |-> bag[r]]

Pending(b) == b.needs_reply /\ PartyCount(sigs, b.id, FALSE) = 0
Active(b) ==
    ~b.needs_reply /\ b.win_outcome_event_id = Null /\ b.lose_outcome_event_id = Null
Settled(b) == b.win_outcome_event_id # Null /\ b.lose_outcome_event_id # Null

\* C1: every stored Bet is in exactly one of the states pending, active, settled
C1_ExactlyOneState ==
    \A b \in bets :
        Cardinality({st \in {"pending", "active", "settled"} :
                        \/ st = "pending" /\ Pending(b)
                        \/ st = "active" /\ Active(b)
                        \/ st = "settled" /\ Settled(b)}) = 1

\* C2: needs_reply never returns to true, an outcome id never returns to null,
\* and no step takes a bet from pending to settled
C2_ForwardOnly ==
    [][\A b \in bets : \A n \in bets' :
          n.id = b.id =>
            /\ ~b.needs_reply => ~n.needs_reply
            /\ b.win_outcome_event_id # Null => n.win_outcome_event_id # Null
            /\ b.lose_outcome_event_id # Null => n.lose_outcome_event_id # Null
            /\ (Settled(n) /\ ~Settled(b)) => ~b.needs_reply]_vars

\* C3: no step writes an outcome id of, or publishes an event for, a bet whose
\* needs_reply is true
C3_PendingNotMatched ==
    [][\A b \in bets :
          b.needs_reply =>
            /\ \A n \in bets' :
                  n.id = b.id =>
                    /\ n.win_outcome_event_id = b.win_outcome_event_id
                    /\ n.lose_outcome_event_id = b.lose_outcome_event_id
            /\ PublishedFor(published', b.id) = PublishedFor(published, b.id)]_vars

\* C4: at most one Sig row for every (bet_id, outcome, is_party_a)
C4_OneSigPerKey ==
    \A bet_id \in BetIds, o \in Labels, is_party_a \in BOOLEAN :
        LET rows == Sig_get_by_params(sigs, bet_id, o, is_party_a)
        IN  Cardinality(rows) <= 1 /\ \A r \in rows : sigs[r] <= 1

\* the number of outcomes the bet's announcement declares
DeclaredOutcomes(b) == Cardinality(b.oracle_announcement.outcomes)

\* every Bet has its party-A Sig rows, and every Sig row has its Bet
BetsHaveSigsA ==
    /\ \A b \in bets : PartyCount(sigs, b.id, TRUE) = DeclaredOutcomes(b)
    /\ \A r \in BagToSet(sigs) : BetById(bets, r.bet_id) # {}

\* C5: a create-bet call that fails leaves the bets and sigs tables as they
\* were, and after every step every Bet has its party-A Sig rows
C5_CreateAllOrNothing ==
    [][/\ \A call \in LedgerCreateCalls :
            (CreateBet(call[1], call[2]) /\ resp'.result # Ok)
                => (bets' = bets /\ sigs' = sigs)
       /\ BetsHaveSigsA']_vars

\* a create-bet call failed in the insert of the Sig rows: the sequence has
\* moved on and the tables are empty
C5_Witness ==
    /\ resp.op = "create_bet" /\ resp.result = DbError
    /\ bets_id_seq = 2 /\ bets = {} /\ sigs = EmptyBag

\* C6: an add-sigs call for an id without a bet fails with NotFound, one for a
\* bet whose needs_reply is false fails with AlreadyReplied; neither changes a
\* table, the live set or a call in progress
C6_ReplyRejected ==
    [][\A h \in HandlerIds, request \in LedgerAddSigsRequests :
          AddSigsCheck(h, request) =>
            LET found == BetById(bets, request.id)
                unchanged == /\ bets' = bets /\ sigs' = sigs
                             /\ live' = live /\ handlers' = handlers
            IN  /\ found = {} =>
                     (resp'.op = "add_sigs" /\ resp'.result = NotFound /\ unchanged)
                /\ (\E b \in found : ~b.needs_reply) =>
                     (resp'.op = "add_sigs" /\ resp'.result = AlreadyReplied /\ unchanged)]_vars

\* an add-sigs call was refused for a bet that had its reply
C6_Witness ==
    /\ resp.op = "add_sigs" /\ resp.result = AlreadyReplied
    /\ \E b \in bets : ~b.needs_reply /\ PartyCount(sigs, b.id, FALSE) > 0

\* C7: party B's Sig rows and needs_reply = false appear in one step: no bet
\* has party-B rows while needs_reply is true, none has needs_reply false
\* without them, and right after the transaction of a reply to a bet the bet
\* has needs_reply false and both outcome ids null
C7_ReplyAtomic ==
    [][/\ \A b \in bets' :
            b.needs_reply <=> PartyCount(sigs', b.id, FALSE) = 0
       /\ \A h \in HandlerIds :
            (handlers[h].pc = "add_sigs" /\ handlers'[h].pc = "notify") =>
                \E b \in BetById(bets', handlers[h].id) :
                    /\ ~b.needs_reply
                    /\ b.win_outcome_event_id = Null
                    /\ b.lose_outcome_event_id = Null
                    /\ PartyCount(sigs', b.id, FALSE) > PartyCount(sigs, b.id, FALSE)]_vars

\* a reply went through: the bet created by the latest call but one is active
C7_Witness ==
    /\ resp.op = "add_sigs" /\ resp.result = Ok
    /\ \E b \in bets : Active(b) /\ PartyCount(sigs, b.id, FALSE) = DeclaredOutcomes(b)

\* C8: a create-bet call whose announcement is an enum event, and an add-sigs
\* call for a bet that awaits its reply, with a number of signatures other than
\* the number of declared outcomes, fails with OutcomeCountMismatch, has
\* verified no signature, and changes no table, live set or call in progress
C8_CountBeforeVerification ==
    [][/\ \A call \in LedgerCreateCalls :
            LET parsed == oracle_announcement_from_str(call[1].oracle_announcement)
            IN  (/\ CreateBet(call[1], call[2])
                 /\ parsed.ok /\ parsed.value.descriptor = "enum"
                 /\ Cardinality(DOMAIN call[1].sigs) # Cardinality(parsed.value.outcomes))
                => /\ resp' = [op |-> "create_bet", result |-> OutcomeCountMismatch,
                               verified |-> FALSE]
                   /\ bets' = bets /\ sigs' = sigs /\ bets_id_seq' = bets_id_seq
       /\ \A h \in HandlerIds, request \in LedgerAddSigsRequests :
            (/\ AddSigsCheck(h, request)
             /\ \E b \in BetById(bets, request.id) :
                   /\ b.needs_reply
                   /\ Cardinality(DOMAIN request.sigs) # DeclaredOutcomes(b))
            => /\ resp' = [op |-> "add_sigs", result |-> OutcomeCountMismatch,
                           verified |-> FALSE]
               /\ bets' = bets /\ sigs' = sigs /\ live' = live
               /\ handlers' = handlers]_vars

\* a call was refused for its number of signatures while a bet awaits its reply
C8_Witness ==
    /\ resp.result = OutcomeCountMismatch /\ ~resp.verified
    /\ \E b \in bets : b.needs_reply

\* C9: a party that has Sig rows for a bet has as many as the announcement
\* declares outcomes
C9_SigCountIsOutcomeCount ==
    \A b \in bets, is_party_a \in BOOLEAN :
        PartyCount(sigs, b.id, is_party_a) \in {0, DeclaredOutcomes(b)}

\* C10: no Sig row holds a signature that verifies against both the win and
\* the lose message of its party
C10_NoAmbiguousSig ==
    \A r \in BagToSet(sigs) : \A b \in BetById(bets, r.bet_id) :
        LET key == IF r.is_party_a THEN b.user_a ELSE b.user_b
            win == IF r.is_party_a THEN b.win_a ELSE b.win_b
            lose == IF r.is_party_a THEN b.lose_a ELSE b.lose_b
            point == get_adaptor_point_from_oracle_info(
                        b.oracle_announcement.oracle_public_key, r.outcome)
        IN  ~(/\ verify_encrypted_signature(key, point, win.id, r.sig)
              /\ verify_encrypted_signature(key, point, lose.id, r.sig))

\* the listener is subscribed with the given id in its filter
Watching(e) == listener.pc = "listening" /\ e \in listener.filter

\* C11: the oracle event id of every bet whose reply has been accepted and
\* answered is in the live set, and the listener eventually subscribes with a
\* filter that contains every id of the live set
C11_ReplyWatched ==
    /\ [](\A b \in bets :
            (/\ ~b.needs_reply
             /\ \A h \in HandlerIds :
                   handlers[h].pc = "notify" => handlers[h].oracle_event_id # b.oracle_event_id)
            => b.oracle_event_id \in live)
    /\ \A e \in OracleEventIds : (e \in live) ~> Watching(e)

\* a reply was answered after the listener had subscribed, and the listener
\* has subscribed again with the bet's oracle event id
C11_Witness ==
    /\ resp.op = "add_sigs" /\ resp.result = Ok
    /\ listener.seen > 0
    /\ \E b \in bets : ~b.needs_reply /\ Watching(b.oracle_event_id)

\* C12: a subscription is made over exactly the live set; while the listener
\* is subscribed and its receiver has seen the channel's version the filter is
\* the live set; a change of the live set ends the subscription; and a filter
\* that is not the live set is followed by a subscription whose filter is
C12_FilterFollowsLiveSet ==
    /\ [](listener.pc = "listening" /\ listener.seen = version => listener.filter = live)
    /\ [][/\ (listener.pc = "connect" /\ listener'.pc = "listening")
                => listener'.filter = live
          /\ ListenerChanged => listener'.pc = "disconnect"]_vars
    /\ (listener.pc = "listening" /\ listener.filter # live)
          ~> (listener.pc = "listening" /\ listener.filter = live)

\* the live set changed twice and the listener is subscribed to all of it
C12_Witness ==
    /\ listener.pc = "listening" /\ listener.filter = live
    /\ listener.seen = version /\ version = Cardinality(OracleEventIds)

\* neither party has a Sig row of the bet for the outcome
NoSigFor(bet_id, outcome) ==
    /\ Sig_get_by_params(sigs, bet_id, outcome, TRUE) = None
    /\ Sig_get_by_params(sigs, bet_id, outcome, FALSE) = None

\* C13: when neither party has a Sig for the attested outcome, handle_bet
\* takes the branch that writes the all-zero id to the win and then to the
\* lose column of the bet, after which both columns hold it, and nothing is
\* ever published for the bet
C13_UnanticipatedOutcome ==
    /\ [][\A t \in TaskIds :
            LET task == tasks[t]
                written == BetById(bets', Head(task.bets).id)
            IN  /\ (/\ GetSigB(t)
                    /\ NoSigFor(Head(task.bets).id, task.attestation.outcomes[1]))
                   => tasks'[t].pc = "zero_win"
                /\ ZeroWin(t, FALSE) =>
                      /\ \A b \in written : b.win_outcome_event_id = AllZeros
                      /\ published' = published
                /\ ZeroLose(t, FALSE) =>
                      /\ \A b \in written : /\ b.win_outcome_event_id = AllZeros
                                            /\ b.lose_outcome_event_id = AllZeros
                      /\ published' = published]_vars
    /\ [](\A event \in relay, b \in bets :
            (/\ event.e_tag = Some(b.oracle_event_id)
             /\ NoSigFor(b.id, event.content[1].outcomes[1]))
            => PublishedFor(published, b.id) = EmptyBag)

\* an outcome nobody signed for was attested and handled: a bet holds the
\* all-zero id in both columns and nothing was published
C13_Witness ==
    /\ \E b \in bets : /\ b.win_outcome_event_id = AllZeros
                       /\ b.lose_outcome_event_id = AllZeros
    /\ \E t \in TaskIds : tasks[t].pc = "done"
    /\ published = EmptyBag

\* C14: after a step of party A's side of handle_bet, failed or not, party
\* B's side is still to come when party B has a Sig for the outcome
C14_SidesIndependent ==
    [][\A t \in TaskIds :
          (/\ \E fails \in BOOLEAN : SetA(t, fails) \/ SendA(t, fails)
           /\ tasks[t].sig_b # None)
          => tasks'[t].pc \in {"send_a", "set_b"}]_vars

\* the steps of handle_bet that fail
HandleBetFails(t) ==
    \/ ZeroWin(t, TRUE) \/ ZeroLose(t, TRUE)
    \/ SetA(t, TRUE) \/ SendA(t, TRUE)
    \/ SetB(t, TRUE) \/ SendB(t, TRUE)

C16_RedeliverySameIds ==
    [][\A b \in bets, n \in bets' :
          n.id = b.id =>
            /\ b.win_outcome_event_id # Null
                  => n.win_outcome_event_id = b.win_outcome_event_id
            /\ b.lose_outcome_event_id # Null
                  => n.lose_outcome_event_id = b.lose_outcome_event_id]_vars

\* the attestation was delivered twice and handled to the end both times: both
\* tasks are done, the bet is settled and each party's event was sent twice
C16_Witness ==
    /\ \A t \in TaskIds : tasks[t].pc = "done"
    /\ \E b \in bets :
          /\ Settled(b)
          /\ BagCardinality(PublishedFor(published, b.id)) = 2 * Cardinality(TaskIds)

\* C17: for each bet and each party at most one event is handed to the relay
C17_PublishedOnce ==
    \A b \in BetIds, is_party_a \in BOOLEAN :
        LET rows == {r \in BagToSet(published) : r.bet = b /\ r.is_party_a = is_party_a}
        IN  BagCardinality([r \in rows |-> published[r]]) <= 1

\* C18: the outcome ids of a settled bet never change
C18_SettledIdsFixed ==
    [][\A b \in bets, n \in bets' :
          (n.id = b.id /\ Settled(b)) =>
            /\ n.win_outcome_event_id = b.win_outcome_event_id
            /\ n.lose_outcome_event_id = b.lose_outcome_event_id]_vars

\* C19: reject_bet by one of the bet's parties removes the bet and every Sig
\* row of it and nothing else; by any other key, or for an id without a bet,
\* it leaves both tables as they are
C19_RejectDeletesOwnRows ==
    [][\A bet_id \in BetIds, key \in {Alice, Bob, Mallory} :
          RejectBet(bet_id, key) =>
            LET found == BetById(bets, bet_id)
            IN  IF \E b \in found : key \in {b.user_a, b.user_b}
                THEN /\ bets' = bets \ found
                     /\ \A r \in BagToSet(sigs') : r.bet_id # bet_id
                     /\ \A r \in BagToSet(sigs) :
                           r.bet_id # bet_id => CopiesIn(r, sigs') = CopiesIn(r, sigs)
                     /\ \A r \in BagToSet(sigs') : r \in BagToSet(sigs)
                ELSE bets' = bets /\ sigs' = sigs]_vars

\* the bet that the last answered call created is gone with its Sig rows,
\* while the other bet and its rows are there
C19_Witness ==
    /\ resp.op = "create_bet" /\ resp.result = Ok
    /\ bets_id_seq = 3
    /\ BetById(bets, 2) = {}
    /\ BetById(bets, 1) # {}
    /\ \A r \in BagToSet(sigs) : r.bet_id = 1
    /\ sigs # EmptyBag

\* C20: at startup the live set is the set of the oracle event ids of the
\* replied bets that lack a win or a lose outcome id
C20_InitialLiveSet ==
    [][Restart =>
          live' = {b.oracle_event_id :
                      b \in {x \in bets : /\ ~x.needs_reply
                                          /\ \/ x.win_outcome_event_id = Null
                                             \/ x.lose_outcome_event_id = Null}}]_vars

\* no add-sigs call and no resolver task is in progress
Quiet ==
    /\ \A h \in HandlerIds : handlers[h].pc = "idle"
    /\ \A t \in TaskIds : tasks[t].pc \in {"idle", "done"}

\* C21: while no call and no resolution is in progress, the live set is the
\* set of the oracle event ids of the replied bets that are not settled
C21_LiveSetIsAwaited ==
    Quiet => live = {b.oracle_event_id : b \in {x \in bets : ~x.needs_reply /\ ~Settled(x)}}

\* the relay has an event for the listener that its client has not notified
Incoming(event) ==
    /\ listener.pc = "listening"
    /\ listener.notifications = "open"
    /\ event \in relay \ listener.got
    /\ event.e_tag # None /\ Unwrap(event.e_tag) \in listener.filter

Subscribed == listener.pc = "listening" /\ listener.notifications = "open"

\* C23: whenever the listener is not subscribed (its loop was broken by a
\* shutdown notification, by a change of the live set or by an error of
\* disconnect or add_relays, or its notification channel returned an error),
\* it is eventually subscribed again
C23_ReturnsToSubscribed == (~Subscribed) ~> Subscribed

\* the event is dispatched to the resolver: kind 89 and a signature that verifies
Dispatched(event) == event.kind = 89 /\ event.verifies

\* C24: when the listener takes an event whose signature does not verify or
\* whose kind is not 89, no task is started and no Bet, no Sig and no published
\* event changes; no task ever handles such an event
C24_InvalidDiscarded ==
    /\ [](\A t \in TaskIds : tasks[t].pc = "handle_event" => Dispatched(tasks[t].event))
    /\ [][\A t \in TaskIds, event \in RelayEvents :
            (ListenerReceive(t, event) /\ ~Dispatched(event))
            => UNCHANGED <<tasks, bets, sigs, published>>]_vars

\* the listener has taken an event whose signature does not verify and an
\* event of another kind, and nothing has changed
C24_Witness ==
    /\ \E event \in listener.got : ~event.verifies
    /\ \E event \in listener.got : event.kind # 89
    /\ \A t \in TaskIds : tasks[t].pc = "idle"
    /\ \A b \in bets : ~Settled(b)

\* C27: when both parties have a Sig for the attested outcome and both sides
\* of handle_bet have completed, the two Sig rows have selected different
\* columns and both outcome ids of the bet are set
C27_DisjointColumns ==
    [][\A t \in TaskIds :
          (SendB(t, FALSE) /\ tasks[t].sig_a # None) =>
             /\ Unwrap(tasks[t].sig_a).is_win # Unwrap(tasks[t].sig_b).is_win
             /\ \A b \in BetById(bets', Head(tasks[t].bets).id) : Settled(b)]_vars

\* the unsigned event of the bet that the flags of the Sig select
SelectedEvent(bet, sig) ==
    CASE sig.is_party_a /\ sig.is_win -> bet.win_a
      [] sig.is_party_a /\ ~sig.is_win -> bet.lose_a
      [] ~sig.is_party_a /\ sig.is_win -> bet.win_b
      [] OTHER -> bet.lose_b

\* C28: the write of a side of handle_bet puts the id of the unsigned event the
\* Sig's flags select into win_outcome_event_id when is_win is true and into
\* lose_outcome_event_id otherwise, leaving the other column as it is, and the
\* send of the side publishes the event of that id
C28_SelectedMessage ==
    [][\A t \in TaskIds, is_party_a \in BOOLEAN :
          LET task == tasks[t]
              bet == Head(task.bets)
              sig == Unwrap(IF is_party_a THEN task.sig_a ELSE task.sig_b)
              id == SelectedEvent(bet, sig).id
          IN  /\ (/\ IF is_party_a THEN SetA(t, FALSE) ELSE SetB(t, FALSE)
                  /\ tasks'[t].pc \in {"send_a", "send_b"})
                 => /\ sig.is_party_a = is_party_a
                    /\ \A b \in BetById(bets, bet.id) : \E n \in BetById(bets', bet.id) :
                          IF sig.is_win
                          THEN /\ n.win_outcome_event_id = id
                               /\ n.lose_outcome_event_id = b.lose_outcome_event_id
                          ELSE /\ n.lose_outcome_event_id = id
                               /\ n.win_outcome_event_id = b.win_outcome_event_id
              /\ (IF is_party_a THEN SendA(t, FALSE) ELSE SendB(t, FALSE))
                 => published' = published (+)
                       SetToBag({[bet |-> bet.id, is_party_a |-> is_party_a, id |-> id]})]_vars

\* party A's win event and party B's lose event were published and their ids
\* are in the win and in the lose column
C28_Witness ==
    \E b \in bets :
        /\ b.win_outcome_event_id = b.win_a.id
        /\ b.lose_outcome_event_id = b.lose_b.id
        /\ [bet |-> b.id, is_party_a |-> TRUE, id |-> b.win_a.id] \in BagToSet(published)
        /\ [bet |-> b.id, is_party_a |-> FALSE, id |-> b.lose_b.id] \in BagToSet(published)

\* C29: when a side of handle_bet hands its event to the relay, the id of the
\* event is the bet's win_outcome_event_id or lose_outcome_event_id, if the bet
\* still exists
C29_RecordedBeforePublish ==
    [][\A t \in TaskIds :
          (\E fails \in BOOLEAN : SendA(t, fails) \/ SendB(t, fails)) =>
             \A p \in BagToSet(published') \ BagToSet(published) :
                \A b \in BetById(bets, p.bet) :
                   p.id \in {b.win_outcome_event_id, b.lose_outcome_event_id}]_vars

\* the attestation is the one the oracle of the bet's stored announcement
\* issues: made with that oracle's key, its signature the oracle's over the outcome
IssuedByOracleOf(b, attestation) ==
    /\ attestation.oracle_public_key = b.oracle_announcement.oracle_public_key
    /\ attestation.signatures[1].s
          = SValue(b.oracle_announcement.oracle_public_key, attestation.outcomes[1])

\* C30: a step of a task that handles an attestation not issued by the oracle
\* of a bet leaves the outcome ids of that bet as they are
C30_OnlyOracleSettles ==
    [][\A t \in TaskIds :
          (tasks[t].pc \notin {"idle", "done", "handle_event"} /\ ResolverStep(t)) =>
             \A b \in bets, n \in bets' :
                (n.id = b.id /\ ~IssuedByOracleOf(b, tasks[t].attestation)) =>
                   /\ n.win_outcome_event_id = b.win_outcome_event_id
                   /\ n.lose_outcome_event_id = b.lose_outcome_event_id]_vars

\* C26: a step changes the live set only when it is the last part of an
\* accepted add-sigs call, and then the set gains the oracle event id of the
\* bet the call replied to and loses nothing; the id a call is about to insert
\* is the id of the bet it has replied to; and once no call is in progress the
\* id of every replied bet is in the set
C26_SoleWriter ==
    /\ [][/\ live' # live =>
                \E h \in HandlerIds :
                   /\ AddSigsNotify(h)
                   /\ live' = live \cup {handlers[h].oracle_event_id}
          /\ \A h \in HandlerIds :
                 AddSigsNotify(h) => live' = live \cup {handlers[h].oracle_event_id}
          /\ \A h \in HandlerIds :
                 (handlers[h].pc = "add_sigs" /\ handlers'[h].pc = "notify") =>
                    \E b \in bets' : /\ b.id = handlers[h].id
                                     /\ ~b.needs_reply
                                     /\ b.oracle_event_id = handlers'[h].oracle_event_id]_vars
    /\ []((\A h \in HandlerIds : handlers[h].pc = "idle")
            => \A b \in bets : ~b.needs_reply => b.oracle_event_id \in live)

\* two replies were in progress at once, on bets of different oracle events:
\* the first has been answered and has left its id in the set, the second, taken
\* by the second worker while the first was busy, is about to insert the other
C26_Witness ==
    /\ handlers[1].pc = "idle"
    /\ handlers[2].pc = "notify"
    /\ resp.op = "add_sigs" /\ resp.result = Ok
    /\ live = OracleEventIds \ {handlers[2].oracle_event_id}
    /\ Cardinality(live) = 1

\* C25: once the shutdown signal has arrived the listener makes no new
\* subscription, and the process has not exited while a resolver task is
\* neither finished nor timed out
C25_GracefulShutdown ==
    /\ [][process # "running" => ~(listener.pc = "connect" /\ listener'.pc = "listening")]_vars
    /\ [](process = "exited" => \A t \in TaskIds : tasks[t].pc \in {"idle", "done"})

====
